---- MODULE Spec2Model ----
(***************************************************************************)
(* The in-memory job queue of bazarr (bazarr/app/jobs_queue.py): the Job   *)
(* record, the four containers of JobsQueue, the caller-side operations    *)
(* and the single consumer loop, one action per statement group of the     *)
(* loop so that every state another thread can observe is a state of the   *)
(* model.                                                                  *)
(*                                                                         *)
(* Job objects live in the heap `jobs`; a job is referred to by its handle *)
(* (its index in the heap, which is its creation order).  The containers   *)
(* hold handles, as the deques hold references.                            *)
(***************************************************************************)
EXTENDS Integers, Sequences, FiniteSets, TLC

\* ------------------------------------------------------------------ bounds
\* Jobs ever enqueued in the interleaving specifications.
MaxJobs == 3
\* Jobs ever enqueued in the fair specification.
MaxJobsFair == 2
\* Jobs ever enqueued in the specification of the waiting caller.
MaxJobsWait == 2
\* Jobs ever enqueued in the specification of the queries.
MaxJobsQuery == 2
\* Jobs ever enqueued in the specification of the progress updates.
MaxJobsProgress == 2
\* Calls of update_job_progress made while one job is executed.
MaxUpdates == 2
\* The largest progress value and progress maximum passed to update_job_progress.
MaxProgress == 1
\* Caller threads that enqueue at the same time, and the jobs they enqueue.
MaxFeeders == 2
MaxJobsFeedRace == 2
\* Jobs ever enqueued in the rename specification.
MaxJobsRename == 2
\* Jobs ever enqueued when a job submits another and waits for it.
MaxJobsNested == 3
\* Jobs ever enqueued before a termination signal.
MaxJobsSignal == 2
\* Jobs ever enqueued when callables may be unresolvable.
MaxJobsDispatch == 2
\* Jobs ever enqueued when the events of each job are followed.
MaxJobsEvents == 2
\* Jobs ever enqueued with keyword arguments of their own.
MaxJobsInject == 2
\* Jobs ever enqueued in the filtered-listing specification
MaxJobsList == 2

\* Jobs ever enqueued in the cancel-endpoint specification
MaxJobsCancel == 2

\* Outside calls of a self-deferring function
MaxJobsDefer == 2

\* Jobs ever enqueued in the returned-value specification
MaxJobsValue == 2

\* Jobs ever enqueued in the retention specification (more than a ring holds).
MaxJobsRing == 11

\* ------------------------------------------------------- program constants
\* deque(maxlen=1), deque(maxlen=10), deque(maxlen=10)
RunningMaxLen == 1
FailedMaxLen == 10
CompletedMaxLen == 10

\* Python's None, kept apart from every job id, progress value and result.
None == -1

\* The task callables a job can name: one that returns, one that raises.
Funcs == {"succeed", "boom"}
Raises(func) == func = "boom"
ReturnedValue(func) == 42

\* The module every task callable above lives in, and the label of its jobs.
TestMod == "test_mod"
JobName == "job"

\* A callable that, when it runs with a job_id, calls a function that is itself
\* enqueued with add_job_from_function: subtitles/upload.py lines 161-172 call
\* sync_subtitles without job_id, and subtitles/sync.py lines 31-33 then submit and wait.
Uploads(func) == func = "manual_upload_subtitle"

\* A callable whose signature has neither a job_id parameter nor **kwargs.
AcceptsJobId(func) == func # "plain"

\* What importlib.import_module finds, and what getattr finds on that module.
Modules == {TestMod}
Attributes == Funcs \cup {"manual_upload_subtitle", "sync_subtitles", "plain"}

\* line 396: import_module raises ImportError, or getattr raises AttributeError.
DispatchFails(j) == j.module \notin Modules \/ j.func \notin Attributes

\* Mutant of CallRaises: only the body of the callable can raise.
CallRaises_BodyOnly(j) == Raises(j.func)

\* lines 396-397 raise an Exception: the callable cannot be resolved, it is called
\* with a keyword its signature does not have (TypeError), or its body raises.
CallRaises(j) ==
    \/ DispatchFails(j)
    \/ "job_id" \in DOMAIN j.kwargs /\ ~AcceptsJobId(j.func)
    \/ Raises(j.func)

VARIABLES
    jobs,                   \* heap of Job objects, by handle
    jobs_pending_queue,     \* deque()
    jobs_running_queue,     \* deque(maxlen=1)
    jobs_failed_queue,      \* deque(maxlen=10)
    jobs_completed_queue,   \* deque(maxlen=10)
    current_job_id,
    clock,                  \* datetime.now()
    events,                 \* event_stream: per job id, the events published
    pc,                     \* the consumer's position in consume_jobs_pending_queue
    job,                    \* the consumer's local variable `job` (a handle, 0 unbound)
    ret,                    \* the last caller-side call and what it returned
    deleter,                \* a caller thread inside remove_job_from_pending_queue
    waiter,                 \* a caller thread inside add_job_from_function
    feeder,                 \* caller threads inside feed_jobs_pending_queue
    lister,                 \* a caller thread inside list_jobs_from_queue(status=...)
    started,                \* history: handles in the order the consumer took them
    deleted,                \* history: handles removed while pending
    doneOk,                 \* history: handles in the order they were filed completed
    doneFail,               \* history: handles in the order they were filed failed
    calls                   \* history: per handle, how often its callable was invoked

vars == <<jobs, jobs_pending_queue, jobs_running_queue, jobs_failed_queue,
          jobs_completed_queue, current_job_id, clock, events, pc, job, ret,
          deleter, waiter, feeder, lister, started, deleted, doneOk, doneFail, calls>>

queues == <<jobs_pending_queue, jobs_running_queue, jobs_failed_queue,
            jobs_completed_queue>>
history == <<started, deleted, doneOk, doneFail, calls>>

\* ----------------------------------------------------------------- helpers
MaxId == MaxJobsList + MaxJobsValue + MaxJobsDefer + MaxJobsCancel
             + MaxJobs + MaxJobsFair + MaxJobsRing + MaxJobsWait + MaxJobsQuery + MaxJobsProgress
         + MaxJobsFeedRace + MaxJobsRename + MaxJobsNested
         + MaxJobsSignal + MaxJobsDispatch + MaxJobsEvents
         + MaxJobsInject
IdSpace == 1 .. (MaxId + 1)

Handles == 1 .. Len(jobs)

Range(q) == {q[i] : i \in 1 .. Len(q)}

EmptyDict == [k \in {} |-> None]

\* The string 'max' given as progress_value.
Max == -2

\* The values and maxima passed to update_job_progress.
ProgressValues == {None, Max} \cup (0 .. MaxProgress)
ProgressMaxes == {None} \cup (0 .. MaxProgress)

\* Mutant of DequeAppend: a full deque keeps its head and drops the new item.
DequeAppend_DropNewest(q, x, maxlen) ==
    IF Len(q) >= maxlen THEN q ELSE Append(q, x)

\* collections.deque.append under a maxlen: a full deque drops its head.
DequeAppend(q, x, maxlen) ==
    IF Len(q) >= maxlen THEN Append(Tail(q), x) ELSE Append(q, x)

\* The index of the first x in q, 0 when there is none.
IndexOf(q, x) ==
    LET S == {i \in 1 .. Len(q) : q[i] = x}
    IN  IF S = {} THEN 0 ELSE CHOOSE i \in S : \A j \in S : i <= j

\* Mutant of DequeRemove: the deque is left as it was.
DequeRemove_Keep(q, x) == q

\* collections.deque.remove: q without its first x (the caller handles absence).
DequeRemove(q, x) ==
    LET i == IndexOf(q, x)
    IN  IF i = 0 THEN q
        ELSE SubSeq(q, 1, i - 1) \o SubSeq(q, i + 1, Len(q))

\* event_stream(type='jobs', action=..., payload=...)
event_stream(ev, action, payload) ==
    [ev EXCEPT ![payload.job_id] = Append(@, [action |-> action, payload |-> payload])]

\* Job.__init__
Job(job_id, job_name, module, func, kwargs, is_progress, progress_max, now) ==
    [job_id             |-> job_id,
     job_name           |-> job_name,
     module             |-> module,
     func               |-> func,
     kwargs             |-> kwargs,
     status             |-> "pending",
     last_run_time      |-> now,
     is_progress        |-> is_progress,
     progress_value     |-> 0,
     progress_max       |-> progress_max,
     progress_message   |-> "",
     job_returned_value |-> None]

\* A deque iterator is invalidated by every mutation of its deque: the next
\* step of a `for` loop over it then raises RuntimeError.
NoteMutation(d) == IF d.pc \in {"iter", "check", "remove"} THEN [d EXCEPT !.stale = TRUE] ELSE d

IdleDeleter == [pc |-> "idle", job_id |-> 0, index |-> 0, job |-> 0, stale |-> FALSE,
                result |-> "none"]

\* The caller threads that can be inside feed_jobs_pending_queue at once.
FeedThreads == 1 .. MaxFeeders

IdleFeeder == [pc |-> "idle", loaded |-> 0, new_job_id |-> 0, func |-> ""]

IdleLister == [pc |-> "idle", job_id |-> 0, status |-> "", q |-> <<>>, index |-> 0,
               found |-> <<>>]

IdleWaiter == [pc |-> "idle", job_id |-> 0, value |-> None]

\* -------------------------------------------------------------------- Init
\* JobsQueue.__init__, with the consumer about to enter its loop.
Init ==
    /\ jobs = <<>>
    /\ jobs_pending_queue = <<>>
    /\ jobs_running_queue = <<>>
    /\ jobs_failed_queue = <<>>
    /\ jobs_completed_queue = <<>>
    /\ current_job_id = 0
    /\ clock = 0
    /\ events = [i \in IdSpace |-> <<>>]
    /\ pc = "loop"
    /\ job = 0
    /\ ret = [op |-> "none", arg |-> 0, val |-> None, ok |-> FALSE, tick |-> 0]
    /\ deleter = IdleDeleter
    /\ waiter = IdleWaiter
    /\ feeder = [t \in FeedThreads |-> IdleFeeder]
    /\ lister = IdleLister
    /\ started = <<>>
    /\ deleted = {}
    /\ doneOk = <<>>
    /\ doneFail = <<>>
    /\ calls = <<>>

\* ------------------------------------------------------------ caller side
\* Mutant of NewJobId: the id is taken from the number of waiting jobs.
NewJobId_FromPending == Len(jobs_pending_queue) + 1

\* line 129: `self.current_job_id + 1`
NewJobId == current_job_id + 1

\* Mutant of PendingAppend: appendleft() puts the new job at the head.
PendingAppend_Left(q, h) == <<h>> \o q

\* line 130: `self.jobs_pending_queue.append(...)`
PendingAppend(q, h) == Append(q, h)

\* lines 124-144, the body of feed_jobs_pending_queue for every argument, run by one
\* caller thread at a time; at most maxJobs jobs are ever fed and at most maxPending
\* wait at once.  The thread that calls it is left to the action that uses this.
FeedJob(job_name, module, func, kwargs, is_progress, progress_max, maxJobs, maxPending) ==
    /\ Len(jobs) < maxJobs
    /\ Len(jobs_pending_queue) < maxPending
    /\ LET new_job_id == NewJobId
       IN  /\ current_job_id' = new_job_id
           /\ jobs' = Append(jobs, Job(new_job_id, job_name, module, func, kwargs,
                                       is_progress, progress_max, clock))
           /\ jobs_pending_queue' = PendingAppend(jobs_pending_queue, Len(jobs) + 1)
           /\ events' = event_stream(events, "update",
                            [job_id |-> new_job_id, progress_value |-> None,
                             status |-> "pending"])
           /\ ret' = [op |-> "feed", arg |-> 0, val |-> new_job_id, ok |-> TRUE,
                      tick |-> 1 - ret.tick]
    /\ clock' = clock + 1
    /\ calls' = Append(calls, 0)
    /\ deleter' = NoteMutation(deleter)
    /\ UNCHANGED <<jobs_running_queue, jobs_failed_queue, jobs_completed_queue, pc, job,
                   started, deleted, doneOk, doneFail>>

\* feed_jobs_pending_queue with the defaults of its signature (args=None, kwargs=None,
\* is_progress=False, progress_max=0), called by a thread that does nothing else.
feed_jobs_pending_queue(func, maxJobs, maxPending) ==
    /\ FeedJob(JobName, TestMod, func, EmptyDict, FALSE, 0, maxJobs, maxPending)
    /\ UNCHANGED <<waiter, feeder, lister>>

Feed == \E func \in Funcs : feed_jobs_pending_queue(func, MaxJobs, MaxJobs)

\* Mutant of FindPending: the id is not compared, the first pending job matches.
FindPending_AnyId(job_id) ==
    IF jobs_pending_queue = <<>> THEN 0 ELSE 1

\* lines 344-345: the position in pending of the first job with that id whose status
\* is pending, 0 when the loop ends without one.
FindPending(job_id) ==
    LET S == {i \in 1 .. Len(jobs_pending_queue) :
                /\ jobs[jobs_pending_queue[i]].job_id = job_id
                /\ jobs[jobs_pending_queue[i]].status = "pending"}
    IN  IF S = {} THEN 0 ELSE CHOOSE i \in S : \A j \in S : i <= j

\* remove_job_from_pending_queue, run without another thread in between
remove_job_from_pending_queue(job_id) ==
    LET i == FindPending(job_id)
    IN  /\ IF i = 0
           THEN /\ ret' = [op |-> "delete", arg |-> job_id, val |-> None, ok |-> FALSE,
                           tick |-> 1 - ret.tick]
                /\ UNCHANGED <<jobs_pending_queue, events, deleted>>
           ELSE /\ jobs_pending_queue' = DequeRemove(jobs_pending_queue, jobs_pending_queue[i])
                /\ events' = event_stream(events, "delete",
                                 [job_id |-> jobs[jobs_pending_queue[i]].job_id])
                /\ deleted' = deleted \cup {jobs_pending_queue[i]}
                /\ ret' = [op |-> "delete", arg |-> job_id, val |-> None, ok |-> TRUE,
                           tick |-> 1 - ret.tick]
        /\ UNCHANGED <<jobs, jobs_running_queue, jobs_failed_queue, jobs_completed_queue,
                       current_job_id, clock, pc, job, deleter, waiter, feeder, lister,
                       started, doneOk,
                       doneFail, calls>>

Delete == \E job_id \in 1 .. (current_job_id + 1) : remove_job_from_pending_queue(job_id)

\* ---- remove_job_from_pending_queue, statement by statement, in a caller thread
\* line 344: the `for` statement takes an iterator over the pending deque
DeleteCall ==
    /\ deleter.pc \in {"idle", "done"}
    /\ \E job_id \in 1 .. (current_job_id + 1) :
           deleter' = [pc |-> "iter", job_id |-> job_id, index |-> 0, job |-> 0,
                       stale |-> FALSE, result |-> "none"]
    /\ UNCHANGED <<jobs, queues, current_job_id, clock, events, pc, job, ret, waiter,
                   feeder, lister, history>>

\* line 344: the next item of the iterator: RuntimeError when the deque was mutated
\* since the iterator was taken, line 354 (`return False`) when it is exhausted
DeleteIter ==
    /\ deleter.pc = "iter"
    /\ deleter' =
          IF deleter.stale
          THEN [deleter EXCEPT !.pc = "done", !.result = "RuntimeError"]
          ELSE IF deleter.index >= Len(jobs_pending_queue)
          THEN [deleter EXCEPT !.pc = "done", !.result = "False"]
          ELSE [deleter EXCEPT !.pc = "check", !.index = @ + 1,
                               !.job = jobs_pending_queue[deleter.index + 1]]
    /\ UNCHANGED <<jobs, queues, current_job_id, clock, events, pc, job, ret, waiter,
                   feeder, lister, history>>

\* line 345: `if job.job_id == job_id and job.status == 'pending'`
DeleteCheck ==
    /\ deleter.pc = "check"
    /\ deleter' =
          IF /\ jobs[deleter.job].job_id = deleter.job_id
             /\ jobs[deleter.job].status = "pending"
          THEN [deleter EXCEPT !.pc = "remove"]
          ELSE [deleter EXCEPT !.pc = "iter"]
    /\ UNCHANGED <<jobs, queues, current_job_id, clock, events, pc, job, ret, waiter,
                   feeder, lister, history>>

\* lines 346-349: `self.jobs_pending_queue.remove(job)`; ValueError returns False
DeleteRemove ==
    /\ deleter.pc = "remove"
    /\ IF IndexOf(jobs_pending_queue, deleter.job) = 0
       THEN /\ deleter' = [deleter EXCEPT !.pc = "done", !.result = "False"]
            /\ UNCHANGED <<jobs_pending_queue, deleted>>
       ELSE /\ jobs_pending_queue' = DequeRemove(jobs_pending_queue, deleter.job)
            /\ deleted' = deleted \cup {deleter.job}
            /\ deleter' = [deleter EXCEPT !.pc = "notify"]
    /\ UNCHANGED <<jobs, jobs_running_queue, jobs_failed_queue, jobs_completed_queue,
                   current_job_id, clock, events, pc, job, ret, waiter, feeder, lister,
                   started, doneOk,
                   doneFail, calls>>

\* lines 351-353: the delete event, then `return True`
DeleteNotify ==
    /\ deleter.pc = "notify"
    /\ events' = event_stream(events, "delete", [job_id |-> jobs[deleter.job].job_id])
    /\ deleter' = [deleter EXCEPT !.pc = "done", !.result = "True"]
    /\ UNCHANGED <<jobs, queues, current_job_id, clock, pc, job, ret, waiter, feeder, lister,
                   history>>

DeleteThread == DeleteCall \/ DeleteIter \/ DeleteCheck \/ DeleteRemove \/ DeleteNotify

\* ---------------------------------------------------------------- consumer
\* line 369: `if self.jobs_pending_queue:`
ConsumeCheck ==
    /\ pc = "loop"
    /\ jobs_pending_queue # <<>>
    /\ pc' = "pop"
    /\ UNCHANGED <<jobs, queues, current_job_id, clock, events, job, ret, deleter, waiter,
                   feeder, lister, history>>

\* Mutant of ConsumeSleep: the consumer thread ends when it finds nothing to do.
ConsumeSleep_Exit ==
    /\ pc = "loop"
    /\ jobs_pending_queue = <<>>
    /\ pc' = "dead"
    /\ UNCHANGED <<jobs, queues, current_job_id, clock, events, job, ret, deleter, waiter,
                   feeder, lister, history>>

\* line 412: `sleep(0.1)`, then the loop again
ConsumeSleep ==
    /\ pc = "loop"
    /\ jobs_pending_queue = <<>>
    /\ UNCHANGED vars

\* Mutant of ConsumePop: pop() takes the newest job instead of the oldest.
ConsumePop_Right ==
    /\ pc = "pop"
    /\ IF jobs_pending_queue = <<>>
       THEN /\ pc' = "loop"
            /\ UNCHANGED <<jobs_pending_queue, job, started, deleter, waiter, feeder, lister>>
       ELSE /\ job' = jobs_pending_queue[Len(jobs_pending_queue)]
            /\ jobs_pending_queue' = SubSeq(jobs_pending_queue, 1, Len(jobs_pending_queue) - 1)
            /\ started' = Append(started, jobs_pending_queue[Len(jobs_pending_queue)])
            /\ deleter' = NoteMutation(deleter)
            /\ UNCHANGED <<waiter, feeder, lister>>
            /\ pc' = "mark"
    /\ UNCHANGED <<jobs, jobs_running_queue, jobs_failed_queue, jobs_completed_queue,
                   current_job_id, clock, events, ret, deleted, doneOk, doneFail, calls>>

\* line 371: `job = self.jobs_pending_queue.popleft()`; IndexError (the deque was
\* emptied since line 369) is passed over.
ConsumePop ==
    /\ pc = "pop"
    /\ IF jobs_pending_queue = <<>>
       THEN /\ pc' = "loop"
            /\ UNCHANGED <<jobs_pending_queue, job, started, deleter, waiter, feeder, lister>>
       ELSE /\ job' = Head(jobs_pending_queue)
            /\ jobs_pending_queue' = Tail(jobs_pending_queue)
            /\ started' = Append(started, Head(jobs_pending_queue))
            /\ deleter' = NoteMutation(deleter)
            /\ UNCHANGED <<waiter, feeder, lister>>
            /\ pc' = "mark"
    /\ UNCHANGED <<jobs, jobs_running_queue, jobs_failed_queue, jobs_completed_queue,
                   current_job_id, clock, events, ret, deleted, doneOk, doneFail, calls>>

\* Mutant of InjectJobId: job_id is put into the kwargs only when the key is missing.
InjectJobId_IfMissing(j) ==
    IF "job_id" \notin DOMAIN j.kwargs
    THEN [k \in DOMAIN j.kwargs \cup {"job_id"} |->
              IF k = "job_id" THEN j.job_id ELSE j.kwargs[k]]
    ELSE j.kwargs

\* Mutant of InjectJobId: the job's own id replaces whatever the kwargs hold.
InjectJobId_Always(j) ==
    [k \in DOMAIN j.kwargs \cup {"job_id"} |-> IF k = "job_id" THEN j.job_id ELSE j.kwargs[k]]

\* lines 382-383: job_id is put into the kwargs unless a truthy one is there.
InjectJobId(j) ==
    IF "job_id" \notin DOMAIN j.kwargs \/ j.kwargs["job_id"] \in {None, 0}
    THEN [k \in DOMAIN j.kwargs \cup {"job_id"} |->
              IF k = "job_id" THEN j.job_id ELSE j.kwargs[k]]
    ELSE j.kwargs

\* lines 380-383: status, last_run_time and kwargs of the popped job
ConsumeMark ==
    /\ pc = "mark"
    /\ jobs' = [jobs EXCEPT ![job] = [@ EXCEPT !.status = "running",
                                               !.last_run_time = clock,
                                               !.kwargs = InjectJobId(jobs[job])]]
    /\ clock' = clock + 1
    /\ pc' = "push"
    /\ UNCHANGED <<queues, current_job_id, events, job, ret, deleter, waiter, feeder, lister,
                   history>>

\* Mutant of ConsumePush: the consumer goes on without putting the job into running.
ConsumePush_Skip ==
    /\ pc = "push"
    /\ pc' = "notify"
    /\ UNCHANGED <<jobs, queues, current_job_id, clock, events, job, ret, deleter, waiter,
                   feeder, lister, history>>

\* line 384: `self.jobs_running_queue.append(job)`
ConsumePush ==
    /\ pc = "push"
    /\ jobs_running_queue' = DequeAppend(jobs_running_queue, job, RunningMaxLen)
    /\ pc' = "notify"
    /\ UNCHANGED <<jobs, jobs_pending_queue, jobs_failed_queue, jobs_completed_queue,
                   current_job_id, clock, events, job, ret, deleter, waiter, feeder, lister,
                   history>>

\* Mutant of RunningPayload: the start is announced without the status.
RunningPayload_NoStatus(j) == [job_id |-> j.job_id]

\* lines 387-392: the event that announces the start
RunningPayload(j) ==
    IF j.is_progress
    THEN [job_id |-> j.job_id, status |-> j.status, progress_value |-> None,
          progress_max |-> j.progress_max, progress_message |-> j.progress_message]
    ELSE [job_id |-> j.job_id, status |-> j.status]

ConsumeNotify ==
    /\ pc = "notify"
    /\ events' = event_stream(events, "update", RunningPayload(jobs[job]))
    /\ pc' = "call"
    /\ UNCHANGED <<jobs, queues, current_job_id, clock, job, ret, deleter, waiter, feeder,
                   lister, history>>

\* Mutant of ConsumeCall: the exception of the callable is not caught and ends the loop.
ConsumeCall_Uncaught ==
    /\ pc = "call"
    /\ Uploads(jobs[job].func) => waiter.pc \in {"idle", "returned"}
    /\ calls' = [calls EXCEPT ![job] = @ + 1]
    /\ IF CallRaises(jobs[job])
       THEN /\ pc' = "dead"
            /\ UNCHANGED jobs
       ELSE /\ jobs' = [jobs EXCEPT ![job].job_returned_value = ReturnedValue(jobs[job].func)]
            /\ pc' = "else"
    /\ waiter' = IF Uploads(jobs[job].func) THEN IdleWaiter ELSE waiter
    /\ UNCHANGED <<queues, current_job_id, clock, events, job, ret, deleter, feeder, lister,
                   started, deleted, doneOk, doneFail>>

\* lines 396-397: the callable is resolved and invoked; it returns a value, which is
\* stored on the job, or raises.  A callable that submitted a job of its own and
\* waits for it (Uploads) returns only after that wait has returned.
ConsumeCall ==
    /\ pc = "call"
    /\ Uploads(jobs[job].func) => waiter.pc \in {"idle", "returned"}
    /\ calls' = [calls EXCEPT ![job] = @ + 1]
    /\ IF CallRaises(jobs[job])
       THEN /\ pc' = "except"
            /\ UNCHANGED jobs
       ELSE /\ jobs' = [jobs EXCEPT ![job].job_returned_value = ReturnedValue(jobs[job].func)]
            /\ pc' = "else"
    /\ waiter' = IF Uploads(jobs[job].func) THEN IdleWaiter ELSE waiter
    /\ UNCHANGED <<queues, current_job_id, clock, events, job, ret, deleter, feeder, lister,
                   started, deleted, doneOk, doneFail>>

\* Mutant of ConsumeExceptMark: a failed job is marked pending again.
ConsumeExceptMark_Pending ==
    /\ pc = "except"
    /\ jobs' = [jobs EXCEPT ![job] = [@ EXCEPT !.status = "pending", !.last_run_time = clock]]
    /\ clock' = clock + 1
    /\ pc' = "except_file"
    /\ UNCHANGED <<queues, current_job_id, events, job, ret, deleter, waiter, feeder, lister,
                   history>>

\* lines 398-401: `except Exception`: the job is marked failed
ConsumeExceptMark ==
    /\ pc = "except"
    /\ jobs' = [jobs EXCEPT ![job] = [@ EXCEPT !.status = "failed", !.last_run_time = clock]]
    /\ clock' = clock + 1
    /\ pc' = "except_file"
    /\ UNCHANGED <<queues, current_job_id, events, job, ret, deleter, waiter, feeder, lister,
                   history>>

\* Mutant of ConsumeExceptFile: a failed job is put back into pending for a retry.
ConsumeExceptFile_Requeue ==
    /\ pc = "except_file"
    /\ jobs_pending_queue' = Append(jobs_pending_queue, job)
    /\ doneFail' = Append(doneFail, job)
    /\ pc' = "finally"
    /\ UNCHANGED <<jobs, jobs_running_queue, jobs_failed_queue, jobs_completed_queue,
                   current_job_id, clock, events, job, ret, deleter, waiter,
                   feeder, lister, started, deleted,
                   doneOk, calls>>

\* line 402: `self.jobs_failed_queue.append(job)`
ConsumeExceptFile ==
    /\ pc = "except_file"
    /\ jobs_failed_queue' = DequeAppend(jobs_failed_queue, job, FailedMaxLen)
    /\ doneFail' = Append(doneFail, job)
    /\ pc' = "finally"
    /\ UNCHANGED <<jobs, jobs_pending_queue, jobs_running_queue, jobs_completed_queue,
                   current_job_id, clock, events, job, ret, deleter, waiter,
                   feeder, lister, started, deleted,
                   doneOk, calls>>

\* lines 403-405: `else`: the job is marked completed
ConsumeElseMark ==
    /\ pc = "else"
    /\ jobs' = [jobs EXCEPT ![job] = [@ EXCEPT !.status = "completed", !.last_run_time = clock]]
    /\ clock' = clock + 1
    /\ pc' = "else_file"
    /\ UNCHANGED <<queues, current_job_id, events, job, ret, deleter, waiter, feeder, lister,
                   history>>

\* line 406: `self.jobs_completed_queue.append(job)`
ConsumeElseFile ==
    /\ pc = "else_file"
    /\ jobs_completed_queue' = DequeAppend(jobs_completed_queue, job, CompletedMaxLen)
    /\ doneOk' = Append(doneOk, job)
    /\ pc' = "finally"
    /\ UNCHANGED <<jobs, jobs_pending_queue, jobs_running_queue, jobs_failed_queue,
                   current_job_id, clock, events, job, ret, deleter, waiter,
                   feeder, lister, started, deleted,
                   doneFail, calls>>

\* Mutant of ConsumeFinallyRemove: the finished job is left in running.
ConsumeFinallyRemove_Skip ==
    /\ pc = "finally"
    /\ pc' = "finally_notify"
    /\ UNCHANGED <<jobs, queues, current_job_id, clock, events, job, ret, deleter, waiter,
                   feeder, lister, history>>

\* line 408: `self.jobs_running_queue.remove(job)`; a ValueError (the job is not
\* there) leaves the `finally` block and the loop.
ConsumeFinallyRemove ==
    /\ pc = "finally"
    /\ IF IndexOf(jobs_running_queue, job) = 0
       THEN /\ pc' = "dead"
            /\ UNCHANGED jobs_running_queue
       ELSE /\ jobs_running_queue' = DequeRemove(jobs_running_queue, job)
            /\ pc' = "finally_notify"
    /\ UNCHANGED <<jobs, jobs_pending_queue, jobs_failed_queue, jobs_completed_queue,
                   current_job_id, clock, events, job, ret, deleter, waiter, feeder, lister,
                   history>>

\* Mutant of ConsumeFinallyNotify: the loop goes on without a final event.
ConsumeFinallyNotify_Silent ==
    /\ pc = "finally_notify"
    /\ pc' = "loop"
    /\ UNCHANGED <<jobs, queues, current_job_id, clock, events, job, ret, deleter, waiter,
                   feeder, lister, history>>

\* line 409: the final event, whose payload is the job id alone; then the loop again
ConsumeFinallyNotify ==
    /\ pc = "finally_notify"
    /\ events' = event_stream(events, "update", [job_id |-> jobs[job].job_id])
    /\ pc' = "loop"
    /\ UNCHANGED <<jobs, queues, current_job_id, clock, job, ret, deleter, waiter, feeder,
                   lister, history>>

\* consume_jobs_pending_queue: one step of the consumer thread
consume_jobs_pending_queue ==
    \/ ConsumeCheck
    \/ ConsumeSleep
    \/ ConsumePop
    \/ ConsumeMark
    \/ ConsumePush
    \/ ConsumeNotify
    \/ ConsumeCall
    \/ ConsumeExceptMark
    \/ ConsumeExceptFile
    \/ ConsumeElseMark
    \/ ConsumeElseFile
    \/ ConsumeFinallyRemove
    \/ ConsumeFinallyNotify

\* ----------------------------------------------------------------- queries
\* Mutant of StatusQueue: a status that names no container selects the pending one.
StatusQueue_NoKeyError(status) ==
    CASE status = "pending"   -> [found |-> TRUE, q |-> jobs_pending_queue]
      [] status = "running"   -> [found |-> TRUE, q |-> jobs_running_queue]
      [] status = "failed"    -> [found |-> TRUE, q |-> jobs_failed_queue]
      [] status = "completed" -> [found |-> TRUE, q |-> jobs_completed_queue]
      [] OTHER                -> [found |-> TRUE, q |-> jobs_pending_queue]

\* The deque that holds jobs of the given status, <<>> with found = FALSE when
\* self.__dict__ has no such key (line 167, KeyError).
StatusQueue(status) ==
    CASE status = "pending"   -> [found |-> TRUE, q |-> jobs_pending_queue]
      [] status = "running"   -> [found |-> TRUE, q |-> jobs_running_queue]
      [] status = "failed"    -> [found |-> TRUE, q |-> jobs_failed_queue]
      [] status = "completed" -> [found |-> TRUE, q |-> jobs_completed_queue]
      [] OTHER                -> [found |-> FALSE, q |-> <<>>]

\* h placed into s, which is sorted by last_run_time descending, before the first
\* job that is not newer than h.
RECURSIVE SortedInsert(_, _)
SortedInsert(h, s) ==
    IF s = <<>> THEN <<h>>
    ELSE IF jobs[Head(s)].last_run_time <= jobs[h].last_run_time
         THEN <<h>> \o s
         ELSE <<Head(s)>> \o SortedInsert(h, Tail(s))

\* line 174: sorted(..., key=last_run_time, reverse=True), a stable sort
RECURSIVE SortedByLastRunTime(_)
SortedByLastRunTime(q) ==
    IF q = <<>> THEN <<>> ELSE SortedInsert(Head(q), SortedByLastRunTime(Tail(q)))

\* [x for x in q if test(x)]
RECURSIVE SelectJobId(_, _)
SelectJobId(q, job_id) ==
    IF q = <<>> THEN <<>>
    ELSE IF jobs[Head(q)].job_id = job_id
         THEN <<Head(q)>> \o SelectJobId(Tail(q), job_id)
         ELSE SelectJobId(Tail(q), job_id)

\* list_jobs_from_queue(job_id, status), lines 164-174.  The result is the sequence
\* of the jobs whose vars() are returned; status "" stands for an absent or empty
\* status and job_id 0 or None for an absent job_id (both are falsy).  The
\* concatenation of line 164 is one C call, so the four deques are read at once.
list_jobs_from_queue(job_id, status) ==
    LET all    == jobs_pending_queue \o jobs_running_queue \o jobs_failed_queue
                      \o jobs_completed_queue
        named  == StatusQueue(status)
        listed == IF status # "" THEN named.q ELSE all
    IN  IF status # "" /\ ~named.found THEN <<>>
        ELSE IF job_id \notin {None, 0} THEN SelectJobId(listed, job_id)
        ELSE SortedByLastRunTime(listed)

\* get_job_status(job_id), lines 186-190
get_job_status(job_id) ==
    LET found == list_jobs_from_queue(job_id, "")
    IN  IF found # <<>> THEN jobs[found[1]].status ELSE "Unknown job"

\* get_job_returned_value(job_id), lines 206-210
get_job_returned_value(job_id) ==
    LET found == list_jobs_from_queue(job_id, "")
    IN  IF found # <<>> THEN jobs[found[1]].job_returned_value ELSE None

\* A caller thread calls get_job_status(job_id) and gets its answer.
QueryStatus(job_id) ==
    /\ ret' = [op |-> "status", arg |-> job_id, val |-> get_job_status(job_id), ok |-> TRUE,
               tick |-> 1 - ret.tick]
    /\ UNCHANGED <<jobs, queues, current_job_id, clock, events, pc, job, deleter, waiter,
                   feeder, lister,
                   history>>

\* A caller thread calls list_jobs_from_queue(job_id=job_id) (job_id 0: all jobs) and
\* gets its answer.
QueryList(job_id) ==
    /\ ret' = [op |-> "list", arg |-> job_id, val |-> list_jobs_from_queue(job_id, ""),
               ok |-> TRUE, tick |-> 1 - ret.tick]
    /\ UNCHANGED <<jobs, queues, current_job_id, clock, events, pc, job, deleter, waiter,
                   feeder, lister,
                   history>>

\* Mutant of FindRunning: the job is looked for in all four containers.
FindRunning_AnyContainer(job_id) ==
    SelectJobId(jobs_pending_queue \o jobs_running_queue \o jobs_failed_queue
                    \o jobs_completed_queue, job_id)

\* lines 231-232: the jobs of the running container that have the id, in order
FindRunning(job_id) == SelectJobId(jobs_running_queue, job_id)

\* Mutant of SentinelMax: "max" copies progress_max, also when it is 0, and leaves it.
SentinelMax_KeepZero(j) == [j EXCEPT !.progress_value = j.progress_max]

\* Mutant of SentinelMax: "max" sets progress_value alone.
SentinelMax_ValueOnly(j) ==
    [j EXCEPT !.progress_value = IF j.progress_max # 0 THEN j.progress_max ELSE 1]

\* lines 259-261: progress_value "max": `job.progress_max or 1` goes to both fields
SentinelMax(j) ==
    LET value == IF j.progress_max # 0 THEN j.progress_max ELSE 1
    IN  [j EXCEPT !.progress_value = value, !.progress_max = value]

\* Mutant of BuildProgressPayload: the payload is built before the job is updated.
BuildProgressPayload_Stale(j, progress_value, progress_max, progress_message) ==
    LET sentinel == progress_value = Max
        j1 == IF progress_value \in {None, 0} THEN j
              ELSE IF sentinel THEN SentinelMax(j)
              ELSE [j EXCEPT !.progress_value = progress_value]
        j2 == IF progress_max \notin {None, 0} /\ ~sentinel
              THEN [j1 EXCEPT !.progress_max = progress_max] ELSE j1
        j3 == IF progress_message # ""
              THEN [j2 EXCEPT !.progress_message = progress_message] ELSE j2
    IN  [job     |-> j3,
         payload |-> [job_id |-> j.job_id, status |-> j.status,
                      progress_value |-> j.progress_value,
                      progress_max |-> j.progress_max,
                      progress_message |-> j.progress_message]]

\* _build_progress_payload, lines 254-274: the job after the update and the payload.
\* Max stands for the string 'max'; None and 0 are falsy, "" is the falsy message.
BuildProgressPayload(j, progress_value, progress_max, progress_message) ==
    LET sentinel == progress_value = Max
        j1 == IF progress_value \in {None, 0} THEN j
              ELSE IF sentinel THEN SentinelMax(j)
              ELSE [j EXCEPT !.progress_value = progress_value]
        j2 == IF progress_max \notin {None, 0} /\ ~sentinel
              THEN [j1 EXCEPT !.progress_max = progress_max] ELSE j1
        j3 == IF progress_message # ""
              THEN [j2 EXCEPT !.progress_message = progress_message] ELSE j2
    IN  [job     |-> j3,
         payload |-> [job_id |-> j3.job_id, status |-> j3.status,
                      progress_value |-> j3.progress_value,
                      progress_max |-> j3.progress_max,
                      progress_message |-> j3.progress_message]]

\* The events published by update_job_progress for job id i, and their number over
\* all jobs.
ProgressEvents(i) ==
    {k \in 1 .. Len(events[i]) :
        /\ "progress_value" \in DOMAIN events[i][k].payload
        /\ events[i][k].payload.progress_value # None}

RECURSIVE SumOver(_, _)
SumOver(f, S) ==
    IF S = {} THEN 0
    ELSE LET x == CHOOSE y \in S : TRUE IN f[x] + SumOver(f, S \ {x})

Updates == SumOver([i \in 1 .. current_job_id |-> Cardinality(ProgressEvents(i))],
                   1 .. current_job_id)

\* update_job_progress(job_id, progress_value, progress_max, progress_message),
\* lines 231-236, as one call.
update_job_progress(job_id, progress_value, progress_max, progress_message) ==
    LET found == FindRunning(job_id)
        args  == [job_id |-> job_id, progress_value |-> progress_value]
    IN  /\ IF found # <<>>
           THEN LET built == BuildProgressPayload(jobs[found[1]], progress_value,
                                                  progress_max, progress_message)
                IN  /\ jobs' = [jobs EXCEPT ![found[1]] = built.job]
                    /\ events' = event_stream(events, "update", built.payload)
           ELSE UNCHANGED <<jobs, events>>
        /\ ret' = [op |-> "progress", arg |-> args, val |-> None, ok |-> found # <<>>,
                   tick |-> 1 - ret.tick]
        /\ UNCHANGED <<queues, current_job_id, clock, pc, job, deleter, waiter, feeder, lister,
                       history>>

\* The progress updates the program makes: the callable that the consumer is
\* executing (subtitles/mass_download/movies.py lines 74 and 108, and the like)
\* calls update_job_progress before it returns or raises; at most MaxUpdates calls
\* in all find their job.
Progress ==
    /\ pc = "call"
    /\ Updates < MaxUpdates
    /\ \E job_id \in 0 .. (current_job_id + 1) :
       \E progress_value \in ProgressValues :
       \E progress_max \in ProgressMaxes :
       \E progress_message \in {"", "msg"} :
           update_job_progress(job_id, progress_value, progress_max, progress_message)

\* ---- add_job_from_function and its caller, statement by statement, in a thread
\* lines 319-320: the job is fed with the caller's bound arguments as kwargs (the
\* caller was entered with job_id=None).
WaitFeed(func, maxJobs) ==
    /\ waiter.pc = "idle"
    /\ FeedJob(JobName, TestMod, func, [k \in {"job_id"} |-> None], FALSE, 0, maxJobs,
               maxJobs)
    /\ waiter' = [pc |-> "wait", job_id |-> NewJobId, value |-> None]
    /\ UNCHANGED <<feeder, lister>>

\* lines 323-326: one round of the loop: the status is asked for; the thread sleeps
\* while it is pending or running and returns the id otherwise.
WaitPoll ==
    /\ waiter.pc = "wait"
    /\ IF get_job_status(waiter.job_id) \in {"pending", "running"}
       THEN UNCHANGED waiter
       ELSE waiter' = [waiter EXCEPT !.pc = "returned"]
    /\ UNCHANGED <<jobs, queues, current_job_id, clock, events, pc, job, ret, deleter, feeder,
                   lister,
                   history>>

\* The caller that was waiting asks for the value of its job
\* (api/episodes/episodes_subtitles.py line 54).
WaitGetValue ==
    /\ waiter.pc = "returned"
    /\ waiter' = [waiter EXCEPT !.pc = "got", !.value = get_job_returned_value(waiter.job_id)]
    /\ UNCHANGED <<jobs, queues, current_job_id, clock, events, pc, job, ret, deleter, feeder,
                   lister,
                   history>>

\* ---------------------------------------------------------- specifications
\* Callers whose calls are not interleaved with each other, against the consumer.
Next == Feed \/ Delete \/ consume_jobs_pending_queue

Spec == Init /\ [][Next]_vars

\* The same, with a consumer thread that is scheduled whenever it can take a step.
FeedFair == \E func \in Funcs : feed_jobs_pending_queue(func, MaxJobsFair, MaxJobsFair)

NextFair == FeedFair \/ Delete \/ consume_jobs_pending_queue

FairSpec == Init /\ [][NextFair]_vars /\ WF_vars(consume_jobs_pending_queue)

\* A caller inside remove_job_from_pending_queue, interleaved with the consumer
\* statement by statement.
NextRace == Feed \/ DeleteThread \/ consume_jobs_pending_queue

SpecRace == Init /\ [][NextRace]_vars

\* More jobs than the failed and completed rings hold, fed one at a time while the
\* consumer is between two jobs.
FeedRing ==
    /\ pc = "loop"
    /\ jobs_pending_queue = <<>>
    /\ \E func \in Funcs : feed_jobs_pending_queue(func, MaxJobsRing, MaxJobsRing)

NextRing == FeedRing \/ consume_jobs_pending_queue

SpecRing == Init /\ [][NextRing]_vars

\* A caller inside add_job_from_function, against the consumer and other callers.
FeedWait == \E func \in Funcs : feed_jobs_pending_queue(func, MaxJobsWait, MaxJobsWait)

WaitThread == (\E func \in Funcs : WaitFeed(func, MaxJobsWait)) \/ WaitPoll \/ WaitGetValue

NextWait == FeedWait \/ Delete \/ WaitThread \/ consume_jobs_pending_queue

SpecWait == Init /\ [][NextWait]_vars

\* Callers that ask for the status of a job and for the list of jobs, against the
\* consumer and other callers.  The ids asked for are 0, every id given so far and
\* one id not given yet.
FeedQuery == \E func \in Funcs : feed_jobs_pending_queue(func, MaxJobsQuery, MaxJobsQuery)

Query == \E job_id \in 0 .. (current_job_id + 1) : QueryStatus(job_id) \/ QueryList(job_id)

NextQuery == FeedQuery \/ Delete \/ Query \/ consume_jobs_pending_queue

SpecQuery == Init /\ [][NextQuery]_vars

\* Jobs that report progress, enqueued with progress_max 0 (the default) or 1
\* (subtitles/mass_download/movies.py line 113).
FeedProgress ==
    \E func \in Funcs : \E progress_max \in {0, 1} :
        /\ FeedJob(JobName, TestMod, func, EmptyDict, TRUE, progress_max, MaxJobsProgress,
                   MaxJobsProgress)
        /\ UNCHANGED <<waiter, feeder, lister>>

NextProgress == FeedProgress \/ Progress \/ consume_jobs_pending_queue

SpecProgress == Init /\ [][NextProgress]_vars



\* ------------------------------------------------------------------ claims
InQueue(q, h) == h \in Range(q)

\* The last n items of s.
LastN(s, n) == IF Len(s) <= n THEN s ELSE SubSeq(s, Len(s) - n + 1, Len(s))

\* The callable of job h was invoked and raised.
Raised(h) == h \in Handles /\ calls[h] > 0 /\ Raises(jobs[h].func)

\* Job h was executed to its end and filed.
Finished(h) ==
    /\ h \in Handles
    /\ jobs[h].status \in {"completed", "failed"}
    /\ h \in Range(doneOk) \cup Range(doneFail)
    /\ ~InQueue(jobs_running_queue, h)

\* Job h was filed into a ring and pushed out of it by later jobs.
Evicted(h) ==
    \/ h \in Range(doneOk) /\ ~InQueue(jobs_completed_queue, h)
    \/ h \in Range(doneFail) /\ ~InQueue(jobs_failed_queue, h)

\* C1: FIFO execution. The consumer takes jobs in the order in which they were
\* enqueued: the handles it started are increasing, and when it starts a job every
\* job enqueued before that one was started or deleted.
C1_Fifo ==
    /\ \A i, k \in 1 .. Len(started) : i < k => started[i] < started[k]
    /\ \A h \in Range(started) : \A g \in 1 .. (h - 1) : g \in Range(started) \/ g \in deleted

\* Three jobs were enqueued, the second was deleted, the first and the third started.
C1_Witness == started = <<1, 3>> /\ deleted = {2}

\* C2: single concurrency. running holds at most one job, at most one job has the
\* status running, running is empty whenever the consumer takes and prepares a job,
\* and while a callable executes running holds that job alone.
C2_SingleConcurrency ==
    /\ Len(jobs_running_queue) <= 1
    /\ Cardinality({h \in Handles : jobs[h].status = "running"}) <= 1
    /\ pc \in {"pop", "mark", "push"} => jobs_running_queue = <<>>
    /\ pc \in {"notify", "call"} => jobs_running_queue = <<job>>

\* The second job executes while a third waits.
C2_Witness == pc = "call" /\ Len(started) = 2 /\ jobs_pending_queue # <<>>

\* C3: status monotonicity. A job is created pending, and every change of a job's
\* status is pending to running or running to failed or completed.
C3_StatusMonotone ==
    [][/\ \A h \in Handles :
            jobs'[h].status # jobs[h].status =>
                \/ jobs[h].status = "pending" /\ jobs'[h].status = "running"
                \/ jobs[h].status = "running" /\ jobs'[h].status \in {"failed", "completed"}
       /\ \A h \in (1 .. Len(jobs')) \ Handles : jobs'[h].status = "pending"]_vars

\* One job went pending, running, completed and another pending, running, failed.
C3_Witness ==
    /\ \E h \in Handles : jobs[h].status = "completed"
    /\ \E h \in Handles : jobs[h].status = "failed"
    /\ \E h \in Handles : jobs[h].status = "running"

\* C4: failure isolation. Once the callable of a job has raised, that job gets the
\* status failed in the failed container, leaves running, and the consumer is back
\* at its loop; every job enqueued after it is deleted or executed to its end.
C4_FailureIsolation ==
    \A h \in 1 .. MaxJobsFair :
        /\ Raised(h) ~> /\ h \in Handles
                        /\ jobs[h].status = "failed"
                        /\ InQueue(jobs_failed_queue, h)
                        /\ ~InQueue(jobs_running_queue, h)
                        /\ pc = "loop"
        /\ \A g \in (h + 1) .. MaxJobsFair :
               (Raised(h) /\ g \in Handles) ~> (g \in deleted \/ Finished(g))

\* A job failed and a job enqueued after it completed.
C4_Witness ==
    \E h \in Handles : \E g \in Handles :
        /\ h < g
        /\ Raised(h) /\ Finished(h)
        /\ Finished(g) /\ jobs[g].status = "completed"

\* C5: at most once. The callable of a job is invoked at most once, the consumer takes
\* a job at most once, and a job the consumer has taken is not in pending again.
C5_AtMostOnce ==
    \A h \in Handles :
        /\ calls[h] <= 1
        /\ Cardinality({i \in 1 .. Len(started) : started[i] = h}) <= 1
        /\ h \in Range(started) => ~InQueue(jobs_pending_queue, h)

\* A job failed, another completed, and the consumer is at its loop again.
C5_Witness ==
    /\ pc = "loop"
    /\ \E h \in Handles : calls[h] = 1 /\ jobs[h].status = "failed" /\ Finished(h)
    /\ \E h \in Handles : calls[h] = 1 /\ jobs[h].status = "completed" /\ Finished(h)

\* C6: bounded retention. completed holds at most 10 jobs and is exactly the last
\* min(n, 10) of the n jobs filed completed, in that order; failed likewise.
C6_BoundedRetention ==
    /\ Len(jobs_completed_queue) <= 10
    /\ Len(jobs_failed_queue) <= 10
    /\ jobs_completed_queue = LastN(doneOk, 10)
    /\ jobs_failed_queue = LastN(doneFail, 10)

\* An eleventh job completed: the first one was evicted.
C6_Witness == Len(doneOk) = 11 /\ ~InQueue(jobs_completed_queue, doneOk[1])

\* C7: delete semantics. A call of remove_job_from_pending_queue(id) returns true if
\* and only if a job with that id is in pending; then pending loses exactly that job
\* and a delete event for the id is published; otherwise pending and the events are
\* unchanged. running, failed and completed are unchanged in both cases.
C7_DeleteSemantics ==
    [][(ret'.tick # ret.tick /\ ret'.op = "delete") =>
         LET id == ret'.arg
             hit == {h \in Range(jobs_pending_queue) : jobs[h].job_id = id}
         IN  /\ ret'.ok <=> hit # {}
             /\ ret'.ok =>
                  \E h \in hit :
                     /\ jobs_pending_queue' = DequeRemove(jobs_pending_queue, h)
                     /\ ~InQueue(jobs_pending_queue', h)
                     /\ events' = [events EXCEPT ![id] =
                                      Append(@, [action |-> "delete", payload |-> [job_id |-> id]])]
             /\ ~ret'.ok => UNCHANGED <<jobs_pending_queue, events>>
             /\ UNCHANGED <<jobs, jobs_running_queue, jobs_failed_queue,
                            jobs_completed_queue>>]_vars

\* A delete of the running job's id returned false after a delete of a pending job
\* had returned true.
C7_Witness ==
    /\ ret.op = "delete" /\ ~ret.ok
    /\ deleted # {}
    /\ \E h \in Range(jobs_running_queue) : jobs[h].job_id = ret.arg

\* C8: delete against the consumer. If a call of remove_job_from_pending_queue
\* returned true, the callable of the removed job is never invoked; if the consumer
\* has taken the job with that id when the call ends, the call returns false.
C8_DeleteRace ==
    /\ []((deleter.pc = "done" /\ deleter.result = "True") =>
             calls[deleter.job] = 0 /\ deleter.job \notin Range(started))
    /\ [][(deleter'.pc = "done" /\ deleter.pc # "done") =>
            \A h \in Range(started) :
               jobs[h].job_id = deleter.job_id => deleter'.result = "False"]_vars

\* C9: a job is in at most one of the four containers.
C9_OneContainer ==
    \A h \in Handles :
        Cardinality({i \in 1 .. 4 : InQueue(queues[i], h)}) <= 1

\* C10: a job that was enqueued is in one of the four containers unless it was
\* deleted while pending or evicted from the failed or the completed ring.
C10_NeverVanishes ==
    \A h \in Handles :
        \/ \E i \in 1 .. 4 : InQueue(queues[i], h)
        \/ h \in deleted
        \/ Evicted(h)

\* The handle of the job the waiting caller fed.
WaiterJob == waiter.job_id

\* C11: add_job_from_function returns only after its job has stopped waiting and
\* executing: once it has returned id j, job j is completed or failed, or was
\* deleted while pending.
C11_ReturnsAfterFinish ==
    waiter.pc \in {"returned", "got"} =>
        \/ WaiterJob \in deleted
        \/ jobs[WaiterJob].status \in {"completed", "failed"}

\* C12: a caller that waited for a job whose callable returns v without raising, and
\* that was not deleted, obtains v from get_job_returned_value.
C12_ValueAfterWait ==
    (waiter.pc = "got" /\ ~Raises(jobs[WaiterJob].func) /\ WaiterJob \notin deleted) =>
        waiter.value = ReturnedValue(jobs[WaiterJob].func)

FeedReturned == ret'.op = "feed" /\ ret'.tick # ret.tick

C15_FeedEffect ==
    [][FeedReturned =>
          LET new == Len(jobs) + 1
              id  == ret'.val
          IN  /\ Len(jobs') = new
              /\ jobs'[new].job_id = id
              /\ jobs'[new].status = "pending"
              /\ jobs'[new].progress_value = 0
              /\ jobs_pending_queue' = Append(jobs_pending_queue, new)
              /\ UNCHANGED <<jobs_running_queue, jobs_failed_queue, jobs_completed_queue>>
              /\ \A h \in Handles : jobs'[h] = jobs[h]
              /\ \A i \in IdSpace \ {id} : events'[i] = events[i]
              /\ Len(events'[id]) = Len(events[id]) + 1
              /\ SubSeq(events'[id], 1, Len(events[id])) = events[id]
              /\ events'[id][Len(events'[id])].action = "update"
              /\ events'[id][Len(events'[id])].payload.job_id = id
              /\ events'[id][Len(events'[id])].payload.status = "pending"
              /\ new \notin Range(started')
              /\ UNCHANGED <<pc, job>>]_vars

\* A job was just enqueued behind a waiting job while another job was running.
C15_Witness ==
    /\ ret.op = "feed" /\ ret.val = Len(jobs)
    /\ Len(jobs_pending_queue) >= 2
    /\ jobs_pending_queue[Len(jobs_pending_queue)] = Len(jobs)
    /\ jobs_running_queue # <<>>

\* The jobs held in the four containers.
Held ==
    Range(jobs_pending_queue) \cup Range(jobs_running_queue) \cup Range(jobs_failed_queue)
        \cup Range(jobs_completed_queue)

\* How often x occurs in q.
Count(q, x) == Cardinality({i \in 1 .. Len(q) : q[i] = x})

\* C16: get_job_status(id) returns the status of the job with that id when one is in
\* any of the four containers, and "Unknown job" otherwise.
C16_StatusAnswer ==
    [][(ret'.op = "status" /\ ret'.tick # ret.tick) =>
          LET with_id == {h \in Held : jobs[h].job_id = ret'.arg}
          IN  IF with_id # {}
              THEN \E h \in with_id : ret'.val = jobs[h].status
              ELSE ret'.val = "Unknown job"]_vars

\* C17: list_jobs_from_queue without a filter returns every job held in the four
\* containers exactly once, newest last_run_time first; with the id of a job it
\* returns at most one record, that job's; whatever the consumer is doing.
C17_ListAnswer ==
    [][(ret'.op = "list" /\ ret'.tick # ret.tick) =>
          LET found == ret'.val
          IN  IF ret'.arg = 0
              THEN /\ \A h \in Handles : Count(found, h) = (IF h \in Held THEN 1 ELSE 0)
                   /\ \A i, k \in 1 .. Len(found) :
                          i < k => jobs[found[i]].last_run_time >= jobs[found[k]].last_run_time
              ELSE /\ Len(found) <= 1
                   /\ \A i \in 1 .. Len(found) : jobs[found[i]].job_id = ret'.arg]_vars

\* C18: progress bounds. After any sequence of update_job_progress calls on a job,
\* 0 <= progress_value <= progress_max.
C18_ProgressBounds ==
    \A h \in Handles : 0 <= jobs[h].progress_value /\ jobs[h].progress_value <= jobs[h].progress_max

\* The step is a call of update_job_progress that returned.
ProgressReturned == ret'.op = "progress" /\ ret'.tick # ret.tick

\* The jobs in running that have the id.
RunningWithId(job_id) == {h \in Range(jobs_running_queue) : jobs[h].job_id = job_id}

\* C19: update_job_progress(id, progress_value="max") on the running job leaves its
\* progress_value equal to its progress_max, whatever the two were before.
C19_SentinelMax ==
    [][(ProgressReturned /\ ret'.arg.progress_value = Max) =>
          \A h \in RunningWithId(ret'.arg.job_id) :
              /\ ret'.ok
              /\ jobs'[h].progress_value = jobs'[h].progress_max]_vars

\* "max" was applied to a running job whose progress_value 1 was above its
\* progress_max 0: both are 1 now.
C19_Witness ==
    /\ ret.op = "progress" /\ ret.ok /\ ret.arg.progress_value = Max
    /\ LET log == events[ret.arg.job_id]
           n   == Len(log)
       IN  /\ n >= 4
           /\ log[n].payload.progress_value = 1 /\ log[n].payload.progress_max = 1
           /\ log[n - 1].payload.progress_value = 1 /\ log[n - 1].payload.progress_max = 0

\* C20: update_job_progress acts on the running job only. For the id of the job in
\* running it returns true and touches that job alone; for any other id (pending,
\* failed, completed or unknown) it returns false, changes no progress field of any
\* job and publishes no event.
C20_RunningOnly ==
    [][ProgressReturned =>
          LET running == RunningWithId(ret'.arg.job_id)
              others  == Range(jobs_pending_queue) \cup Range(jobs_failed_queue)
                             \cup Range(jobs_completed_queue)
          IN  /\ (\E h \in others : jobs[h].job_id = ret'.arg.job_id) => ~ret'.ok
              /\ IF running # {}
                 THEN /\ ret'.ok
                      /\ \A h \in Handles \ running : jobs'[h] = jobs[h]
                      /\ \A i \in IdSpace \ {ret'.arg.job_id} : events'[i] = events[i]
                 ELSE /\ ~ret'.ok
                      /\ events' = events
                      /\ \A h \in Handles :
                             /\ jobs'[h].progress_value = jobs[h].progress_value
                             /\ jobs'[h].progress_max = jobs[h].progress_max
                             /\ jobs'[h].progress_message = jobs[h].progress_message]_vars

\* While a job was running, an update for the id of a job that had completed or
\* failed before was refused.
C20_Witness ==
    /\ ret.op = "progress" /\ ~ret.ok
    /\ pc = "call"
    /\ jobs_running_queue # <<>>
    /\ \E h \in Range(jobs_completed_queue) \cup Range(jobs_failed_queue) :
           jobs[h].job_id = ret.arg.job_id /\ Finished(h)

\* ------------------------------------------------------------------ rename
\* `jobs_queue.update_job_name(job_id=..., new_job_name=...)` as the callers write it
\* (sonarr/sync/episodes.py lines 204 and 319, subtitles/tools/translate/main.py line
\* 79).  class JobsQueue (lines 70-412) defines no attribute of that name and no
\* __getattr__, so the attribute lookup raises AttributeError before anything is
\* called: no job is touched, and the caller sees the exception.
update_job_name(job_id, new_job_name) ==
    /\ ret' = [op |-> "rename", arg |-> [job_id |-> job_id, new_job_name |-> new_job_name],
               val |-> None, ok |-> FALSE, tick |-> 1 - ret.tick]
    /\ UNCHANGED <<jobs, queues, current_job_id, clock, events, pc, job, deleter, waiter,
                   feeder, lister, history>>

\* A caller renames a job it enqueued: right after the enqueue (episodes.py) or from
\* the job's own callable when it ends (translate/main.py).
Rename == \E job_id \in 1 .. current_job_id : update_job_name(job_id, "renamed")

FeedRename == \E func \in Funcs : feed_jobs_pending_queue(func, MaxJobsRename, MaxJobsRename)

NextRename == FeedRename \/ Rename \/ consume_jobs_pending_queue

SpecRename == Init /\ [][NextRename]_vars

\* A call of update_job_name has just ended.
RenameReturned == ret'.op = "rename" /\ ret'.tick # ret.tick

\* C21: update_job_name(job_id, new_job_name) sets the job_name of the job with that
\* id to the new name and changes nothing else: every other field of that job, every
\* other job and the four containers stay as they were.
C21_Rename ==
    [][RenameReturned =>
          /\ \A h \in Handles :
                jobs'[h] = IF h \in Held /\ jobs[h].job_id = ret'.arg.job_id
                           THEN [jobs[h] EXCEPT !.job_name = ret'.arg.new_job_name]
                           ELSE jobs[h]
          /\ UNCHANGED queues]_vars

\* ------------------------------------------------------- concurrent enqueue
\* ---- feed_jobs_pending_queue, statement by statement, in several caller threads.
\* No lock is taken anywhere in the class.  Line 129,
\* `new_job_id = self.current_job_id = self.current_job_id + 1`, is a read of the
\* attribute, an addition and two stores: separate bytecodes, between which an
\* interpreter that switches threads at any instruction (CPython up to 3.9, the
\* free-threaded builds) can run another caller.  FeedLoad is the read.
FeedLoad(t) ==
    /\ feeder[t].pc = "idle"
    /\ Len(jobs) + Cardinality({u \in FeedThreads : feeder[u].pc # "idle"}) < MaxJobsFeedRace
    /\ \E func \in Funcs :
          feeder' = [feeder EXCEPT ![t] = [pc |-> "store", loaded |-> current_job_id,
                                           new_job_id |-> 0, func |-> func]]
    /\ UNCHANGED <<jobs, queues, current_job_id, clock, events, pc, job, ret, deleter, waiter,
                   lister, history>>

\* line 129, second half: the sum is stored in new_job_id and in self.current_job_id.
FeedStore(t) ==
    /\ feeder[t].pc = "store"
    /\ current_job_id' = feeder[t].loaded + 1
    /\ feeder' = [feeder EXCEPT ![t].pc = "append", ![t].new_job_id = feeder[t].loaded + 1]
    /\ UNCHANGED <<jobs, queues, clock, events, pc, job, ret, deleter, waiter, lister,
                   history>>

\* lines 130-144: the Job is built with new_job_id and appended, the pending event is
\* published and new_job_id is returned.
FeedAppend(t) ==
    /\ feeder[t].pc = "append"
    /\ jobs' = Append(jobs, Job(feeder[t].new_job_id, JobName, TestMod, feeder[t].func,
                                EmptyDict, FALSE, 0, clock))
    /\ jobs_pending_queue' = PendingAppend(jobs_pending_queue, Len(jobs) + 1)
    /\ events' = event_stream(events, "update",
                     [job_id |-> feeder[t].new_job_id, progress_value |-> None,
                      status |-> "pending"])
    /\ ret' = [op |-> "feed", arg |-> 0, val |-> feeder[t].new_job_id, ok |-> TRUE,
               tick |-> 1 - ret.tick]
    /\ clock' = clock + 1
    /\ calls' = Append(calls, 0)
    /\ deleter' = NoteMutation(deleter)
    /\ feeder' = [feeder EXCEPT ![t] = IdleFeeder]
    /\ UNCHANGED <<jobs_running_queue, jobs_failed_queue, jobs_completed_queue,
                   current_job_id, pc, job, waiter, lister, started, deleted, doneOk, doneFail>>

FeedThread == \E t \in FeedThreads : FeedLoad(t) \/ FeedStore(t) \/ FeedAppend(t)

\* Callers that enqueue at the same time, against the consumer.
NextFeedRace == FeedThread \/ consume_jobs_pending_queue

SpecFeedRace == Init /\ [][NextFeedRace]_vars

\* C22: concurrent enqueue keeps ids unique.  Every call of feed_jobs_pending_queue
\* appends one job that holds the id the call returns, so: no two jobs ever enqueued,
\* and so no two jobs in the containers, have the same job_id.
C22_UniqueIds ==
    \A h1 \in Handles : \A h2 \in Handles : h1 # h2 => jobs[h1].job_id # jobs[h2].job_id

\* ------------------------------------------- submit-and-wait inside a job
\* subtitles/upload.py lines 161-172 and subtitles/sync.py lines 31-33, run by the
\* consumer thread as part of the callable of the running job: sync_subtitles is
\* entered without job_id and calls add_job_from_function, which enqueues
\* sync_subtitles with job_id=None among its arguments (lines 319-320) ...
NestedSubmit ==
    /\ pc = "call"
    /\ Uploads(jobs[job].func)
    /\ WaitFeed("sync_subtitles", MaxJobsNested)

\* ... and asks for its status until it is neither pending nor running (lines
\* 323-324), still in the consumer thread.
NestedPoll ==
    /\ pc = "call"
    /\ Uploads(jobs[job].func)
    /\ WaitPoll

\* Callers enqueue uploads and other jobs the way add_job_from_function does.
FeedNested ==
    /\ \E func \in Funcs \cup {"manual_upload_subtitle"} :
          FeedJob(JobName, TestMod, func, [k \in {"job_id"} |-> None], FALSE, 0,
                  MaxJobsNested, MaxJobsNested)
    /\ UNCHANGED <<waiter, feeder, lister>>

ConsumerThread == NestedSubmit \/ NestedPoll \/ consume_jobs_pending_queue

NextNested == FeedNested \/ NestedSubmit \/ NestedPoll \/ consume_jobs_pending_queue

\* The consumer thread is scheduled whenever it can take a step.
SpecNested == Init /\ [][NextNested]_vars /\ WF_vars(ConsumerThread)

\* C23: submit-and-wait from inside the running job never blocks the consumer: the
\* job that the running job's callable submitted is executed to its end and the wait
\* for it returns.
C23_NestedWait ==
    \A h \in 1 .. MaxJobsNested :
        (waiter.pc = "wait" /\ WaiterJob = h /\ pc = "call" /\ Uploads(jobs[job].func))
            ~> (Finished(h) /\ waiter.pc # "wait")

\* ------------------------------------------------------ termination signal
\* KeyboardInterrupt or SystemExit raised while the consumer sleeps (line 412): no
\* handler encloses the sleep, the exception leaves the loop.
ConsumeSleepInterrupt ==
    /\ pc = "loop"
    /\ jobs_pending_queue = <<>>
    /\ pc' = "dead"
    /\ UNCHANGED <<jobs, queues, current_job_id, clock, events, job, ret, deleter, waiter,
                   feeder, lister, history>>

\* lines 370-375: KeyboardInterrupt or SystemExit raised in the `try` around popleft,
\* before a job was taken: `break`.
ConsumePopInterrupt ==
    /\ pc = "pop"
    /\ pc' = "dead"
    /\ UNCHANGED <<jobs, queues, current_job_id, clock, events, job, ret, deleter, waiter,
                   feeder, lister, history>>

\* lines 396-398: KeyboardInterrupt or SystemExit raised while the callable runs.
\* They are not subclasses of Exception: neither the `except Exception` block nor the
\* `else` block runs, the `finally` block does, and the exception goes on from there.
ConsumeCallInterrupt ==
    /\ pc = "call"
    /\ calls' = [calls EXCEPT ![job] = @ + 1]
    /\ pc' = "finally_exit"
    /\ UNCHANGED <<jobs, queues, current_job_id, clock, events, job, ret, deleter, waiter,
                   feeder, lister, started, deleted, doneOk, doneFail>>

\* line 408 with the exception pending.
ConsumeFinallyRemoveExit ==
    /\ pc = "finally_exit"
    /\ IF IndexOf(jobs_running_queue, job) = 0
       THEN /\ pc' = "dead"
            /\ UNCHANGED jobs_running_queue
       ELSE /\ jobs_running_queue' = DequeRemove(jobs_running_queue, job)
            /\ pc' = "finally_notify_exit"
    /\ UNCHANGED <<jobs, jobs_pending_queue, jobs_failed_queue, jobs_completed_queue,
                   current_job_id, clock, events, job, ret, deleter, waiter, feeder, lister,
                   history>>

\* line 409 with the exception pending: after the final event the exception leaves
\* the `while` loop, which has no handler for it, and the consumer thread ends.
ConsumeFinallyNotifyExit ==
    /\ pc = "finally_notify_exit"
    /\ events' = event_stream(events, "update", [job_id |-> jobs[job].job_id])
    /\ pc' = "dead"
    /\ UNCHANGED <<jobs, queues, current_job_id, clock, job, ret, deleter, waiter, feeder,
                   lister, history>>

FeedSignal == \E func \in Funcs : feed_jobs_pending_queue(func, MaxJobsSignal, MaxJobsSignal)

NextSignal ==
    \/ FeedSignal
    \/ Delete
    \/ consume_jobs_pending_queue
    \/ ConsumeSleepInterrupt
    \/ ConsumePopInterrupt
    \/ ConsumeCallInterrupt
    \/ ConsumeFinallyRemoveExit
    \/ ConsumeFinallyNotifyExit

SpecSignal == Init /\ [][NextSignal]_vars

\* The containers that hold job h, by the status they stand for.
ContainersOf(h) ==
    {status \in {"pending", "running", "failed", "completed"} :
        InQueue(StatusQueue(status).q, h)}

\* C24: a termination signal leaves the queue consistent.  Once the consumer has
\* stopped, every job that was enqueued and neither deleted nor evicted is in exactly
\* one container, the one its status names; so the job that was executing when the
\* signal came is still in a container.
C24_SignalConsistent ==
    pc = "dead" =>
        \A h \in Handles :
            (h \notin deleted /\ ~Evicted(h)) => ContainersOf(h) = {jobs[h].status}

\* -------------------------------------------------------- dispatch failures
\* Jobs whose module or function may not exist; feed_jobs_pending_queue stores both
\* names as given (lines 130-139) and resolves neither.
FeedDispatch ==
    /\ \E module \in {TestMod, "no_such_module"} : \E func \in {"succeed", "no_such_function"} :
          FeedJob(JobName, module, func, EmptyDict, FALSE, 0, MaxJobsDispatch, MaxJobsDispatch)
    /\ UNCHANGED <<waiter, feeder, lister>>

NextDispatch == FeedDispatch \/ consume_jobs_pending_queue

\* The consumer thread is scheduled whenever it can take a step.
SpecDispatch == Init /\ [][NextDispatch]_vars /\ WF_vars(consume_jobs_pending_queue)

\* The consumer tried to resolve the callable of job h and could not.
DispatchFailed(h) == h \in Handles /\ calls[h] > 0 /\ DispatchFails(jobs[h])

\* C25: dispatch failures are ordinary job failures.  Enqueueing a job whose module
\* cannot be imported or whose function is not in its module succeeds and leaves it
\* an ordinary pending job; once the consumer has tried to resolve it, the job gets
\* the status failed in the failed container and leaves running, it is never filed
\* as completed, the consumer is back at its loop, and every job enqueued after it is
\* executed to its end.
C25_DispatchFailure ==
    /\ [][FeedReturned =>
            /\ ret'.ok
            /\ Len(jobs') = Len(jobs) + 1
            /\ jobs'[Len(jobs')].status = "pending"
            /\ InQueue(jobs_pending_queue', Len(jobs'))]_vars
    /\ [](\A h \in Handles : DispatchFails(jobs[h]) =>
              /\ jobs[h].status # "completed"
              /\ h \notin Range(doneOk)
              /\ jobs[h].job_returned_value = None)
    /\ \A h \in 1 .. MaxJobsDispatch :
          /\ DispatchFailed(h) ~> /\ h \in Handles
                                  /\ jobs[h].status = "failed"
                                  /\ InQueue(jobs_failed_queue, h)
                                  /\ ~InQueue(jobs_running_queue, h)
                                  /\ pc = "loop"
          /\ \A g \in (h + 1) .. MaxJobsDispatch :
                 (DispatchFailed(h) /\ g \in Handles) ~> Finished(g)

\* A job whose module cannot be imported failed, and a job enqueued after it completed.
C25_Witness ==
    \E h \in Handles : \E g \in Handles :
        /\ h < g
        /\ DispatchFailed(h) /\ Finished(h) /\ jobs[h].status = "failed"
        /\ jobs[h].module \notin Modules
        /\ Finished(g) /\ jobs[g].status = "completed"

\* ------------------------------------------------------------------ events
\* Jobs with and without progress reporting.
FeedEvents ==
    /\ \E func \in Funcs : \E is_progress \in BOOLEAN :
          FeedJob(JobName, TestMod, func, EmptyDict, is_progress, 0, MaxJobsEvents,
                  MaxJobsEvents)
    /\ UNCHANGED <<waiter, feeder, lister>>

\* The callable that the consumer is executing reports its own progress with the id
\* it was given (subtitles/sync.py line 39); at most MaxUpdates reports in all.
Report ==
    /\ pc = "call"
    /\ Updates < MaxUpdates
    /\ update_job_progress(jobs[job].job_id, Max, None, "")

NextEvents == FeedEvents \/ Report \/ consume_jobs_pending_queue

SpecEvents == Init /\ [][NextEvents]_vars

\* The events published for job h so far.
EventsOf(h) == events[jobs[h].job_id]

\* The event carries the status.
HasStatus(e, status) == "status" \in DOMAIN e.payload /\ e.payload.status = status

\* The payload of the event is the job id alone.
Bare(e) == DOMAIN e.payload = {"job_id"}

\* The event carries a progress value.
HasProgress(e) == "progress_value" \in DOMAIN e.payload /\ e.payload.progress_value # None

\* The positions of the events of job h that satisfy P.
Where(h, P(_)) == {k \in 1 .. Len(EventsOf(h)) : P(EventsOf(h)[k])}

\* Job h was executed to its end and its final event was published.
Done(h) == Finished(h) /\ ~(job = h /\ pc = "finally_notify")

\* An event with the job id alone is published for job h in this step.
FinalEvent(h) ==
    /\ Len(events'[jobs[h].job_id]) = Len(EventsOf(h)) + 1
    /\ Bare(events'[jobs[h].job_id][Len(EventsOf(h)) + 1])

\* The final event of a job comes after the job left running and was filed.
FinalAfterFiling ==
    [][\A h \in Handles : FinalEvent(h) =>
           /\ ~InQueue(jobs_running_queue, h)
           /\ InQueue(jobs_failed_queue, h) \/ InQueue(jobs_completed_queue, h)
           /\ jobs[h].status \in {"failed", "completed"}]_vars

C27_StatusAnnounced ==
    \A h \in Handles : Done(h) =>
        \A status \in {"pending", "running", jobs[h].status} :
            Where(h, LAMBDA e : HasStatus(e, status)) # {}

\* The consumer has marked job h running and has not yet published the event.
StartUnannounced(h) == job = h /\ pc \in {"push", "notify"}

\* C27 amended: the transitions to pending and to running cause an event that carries
\* the job id and the new status; the transition to completed or failed causes the
\* final event, which carries the job id alone, and no event carries the status
\* completed or failed.
C27_TransitionEvents ==
    \A h \in Handles :
        LET ev == EventsOf(h)
        IN  /\ HasStatus(ev[1], "pending") /\ ev[1].payload.job_id = jobs[h].job_id
            /\ (jobs[h].status # "pending" /\ h \notin deleted /\ ~StartUnannounced(h)) =>
                   HasStatus(ev[2], "running") /\ ev[2].payload.job_id = jobs[h].job_id
            /\ Done(h) => Bare(ev[Len(ev)]) /\ ev[Len(ev)].payload.job_id = jobs[h].job_id
            /\ \A k \in 1 .. Len(ev) :
                   "status" \in DOMAIN ev[k].payload =>
                       ev[k].payload.status \in {"pending", "running"}

\* A job completed, a job failed, and all their events were published.
C27_Witness ==
    \E h \in Handles : \E g \in Handles :
        /\ Done(h) /\ jobs[h].status = "completed"
        /\ Done(g) /\ jobs[g].status = "failed"

\* ------------------------------------------------------- job_id injection
\* A job_id that a caller puts into the kwargs itself, apart from every id the queue
\* gives, and the series id of sonarr/sync/episodes.py line 200 (kwargs={'no': ...}).
CallerJobId == 99
SeriesId == 5

\* The kwargs given at enqueue: none, another argument, and a job_id entry that is
\* None (add_job_from_function, lines 312-320), 0 or a caller's own value.
KwargsGiven ==
    {EmptyDict, [k \in {"no"} |-> SeriesId]}
        \cup {[k \in {"job_id"} |-> v] : v \in {None, 0, CallerJobId}}
        \cup {[k \in {"job_id", "no"} |-> IF k = "no" THEN SeriesId ELSE CallerJobId]}

\* Callers enqueue callables with kwargs their signatures accept: a callable without
\* a job_id parameter is not given a job_id.
FeedInject ==
    /\ \E func \in {"succeed", "plain"} : \E kwargs \in KwargsGiven :
          /\ AcceptsJobId(func) \/ "job_id" \notin DOMAIN kwargs
          /\ FeedJob(JobName, TestMod, func, kwargs, FALSE, 0, MaxJobsInject, MaxJobsInject)
    /\ UNCHANGED <<waiter, feeder, lister>>

NextInject == FeedInject \/ consume_jobs_pending_queue

SpecInject == Init /\ [][NextInject]_vars

\* The step in which the consumer prepares the kwargs of the job it took.
Injects == pc = "mark" /\ pc' = "push"

\* The kwargs of a job change in that step only: the callable is called with what
\* the step leaves.
KwargsSettled ==
    \A h \in Handles : jobs'[h].kwargs # jobs[h].kwargs => Injects /\ job = h

\* The kwargs with job_id set to the id.
WithJobId(kwargs, job_id) ==
    [k \in DOMAIN kwargs \cup {"job_id"} |-> IF k = "job_id" THEN job_id ELSE kwargs[k]]

\* C28 as stated: the callable receives job_id equal to the job's own id if the kwargs
\* given at enqueue had no job_id entry, and the kwargs as given if they had one.
C28_KeepsCallerJobId ==
    [][/\ KwargsSettled
       /\ Injects =>
            jobs'[job].kwargs = IF "job_id" \in DOMAIN jobs[job].kwargs
                                THEN jobs[job].kwargs
                                ELSE WithJobId(jobs[job].kwargs, jobs[job].job_id)]_vars

\* C28 amended: the callable receives job_id equal to the job's own id if the kwargs
\* given at enqueue had no job_id entry or one that is None or 0, and the given
\* job_id otherwise; every other entry is passed as given.
C28_KeepsTruthyJobId ==
    [][/\ KwargsSettled
       /\ Injects =>
            LET given == jobs[job].kwargs
                kept  == "job_id" \in DOMAIN given /\ given["job_id"] \notin {None, 0}
            IN  jobs'[job].kwargs = IF kept THEN given
                                    ELSE WithJobId(given, jobs[job].job_id)]_vars

\* One callable was called with the job_id its caller gave and another with the id
\* of its job.
C28_Witness ==
    \E h \in Handles : \E g \in Handles :
        /\ calls[h] > 0 /\ jobs[h].kwargs["job_id"] = CallerJobId
        /\ calls[g] > 0 /\ jobs[g].kwargs["job_id"] = jobs[g].job_id

\* C29: job_id is injected only for callables that declare it.  A job whose callable
\* has no job_id parameter is called with the kwargs given at enqueue, and, its body
\* raising nothing, ends completed.
C29_InjectOnlyDeclared ==
    /\ [][(Injects /\ ~AcceptsJobId(jobs[job].func)) =>
              jobs'[job].kwargs = jobs[job].kwargs]_vars
    /\ [](\A h \in Handles :
             (Finished(h) /\ ~AcceptsJobId(jobs[h].func) /\ ~Raises(jobs[h].func)) =>
                 jobs[h].status = "completed")

\* --------------------------------------------------------- partial updates
\* C30: partial progress updates.  A call of update_job_progress for the running job
\* with an integer progress_value >= 0 or none (None), a progress_max or none (None)
\* and a message or none ("") sets each field that is supplied to the supplied value
\* and leaves each field that is omitted as it was.
C30_PartialUpdate ==
    [][\A h \in Range(jobs_running_queue) :
       \A progress_value \in ProgressValues \ {Max} :
       \A progress_max \in ProgressMaxes :
       \A progress_message \in {"", "msg"} :
           update_job_progress(jobs[h].job_id, progress_value, progress_max, progress_message)
               => /\ jobs'[h].progress_value =
                         IF progress_value = None THEN jobs[h].progress_value
                         ELSE progress_value
                  /\ jobs'[h].progress_max =
                         IF progress_max = None THEN jobs[h].progress_max ELSE progress_max
                  /\ jobs'[h].progress_message =
                         IF progress_message = "" THEN jobs[h].progress_message
                         ELSE progress_message]_vars

\* ------------------------------------------------------------ the sentinel
\* The step is update_job_progress(id, progress_value="max") for the running job h,
\* with no progress_max and any message.
SentinelStep(h) ==
    \E progress_message \in {"", "msg"} :
        update_job_progress(jobs[h].job_id, Max, None, progress_message)

\* C31 as stated: "max" with no progress_max changes progress_value only, to the
\* progress_max the job had, which stays as it was, for every prior progress_max.
C31_SnapToExistingMax ==
    [][\A h \in Range(jobs_running_queue) : SentinelStep(h) =>
           /\ jobs'[h].progress_max = jobs[h].progress_max
           /\ jobs'[h].progress_value = jobs[h].progress_max]_vars

\* C31 amended: "max" with no progress_max sets progress_value to the progress_max
\* the job had and leaves progress_max as it was when that was not 0; when it was 0,
\* progress_value and progress_max both become 1.
C31_SnapToMaxOrOne ==
    [][\A h \in Range(jobs_running_queue) : SentinelStep(h) =>
           IF jobs[h].progress_max # 0
           THEN /\ jobs'[h].progress_max = jobs[h].progress_max
                /\ jobs'[h].progress_value = jobs[h].progress_max
           ELSE /\ jobs'[h].progress_max = 1
                /\ jobs'[h].progress_value = 1]_vars

\* "max" was the first update of a job that started with progress_max 1 and
\* progress_value 0: the value is 1 now, the maximum still 1.
C31_Witness ==
    /\ ret.op = "progress" /\ ret.ok /\ ret.arg.progress_value = Max
    /\ LET log == events[ret.arg.job_id]
           n   == Len(log)
       IN  /\ n = 3
           /\ log[2].payload.progress_value = None /\ log[2].payload.progress_max = 1
           /\ log[3].payload.progress_value = 1 /\ log[3].payload.progress_max = 1

\* The event that a progress update of job j publishes when it reports j as it is.
Snapshot(j) ==
    [action  |-> "update",
     payload |-> [job_id |-> j.job_id, status |-> "running",
                  progress_value |-> j.progress_value,
                  progress_max |-> j.progress_max,
                  progress_message |-> j.progress_message]]

\* C32: every call of update_job_progress that returns true publishes exactly one
\* event: the events of the job's id grow by one event, which carries the job id, the
\* status running and the three progress fields as the job holds them after the
\* call; the events of every other id stay as they were.
C32_ProgressEvent ==
    [][(ProgressReturned /\ ret'.ok) =>
          /\ RunningWithId(ret'.arg.job_id) # {}
          /\ \A h \in RunningWithId(ret'.arg.job_id) :
                 events'[ret'.arg.job_id] = Append(events[ret'.arg.job_id], Snapshot(jobs'[h]))
          /\ \A i \in IdSpace : i # ret'.arg.job_id => events'[i] = events[i]]_vars

\* An update that changed the value and the message of the running job returned
\* true, and the last event of that job reports both.
C32_Witness ==
    /\ ret.op = "progress" /\ ret.ok /\ ret.arg.progress_value = 1
    /\ \E h \in RunningWithId(ret.arg.job_id) :
          /\ jobs[h].progress_value = 1 /\ jobs[h].progress_message = "msg"
          /\ LET log == events[ret.arg.job_id]
             IN  /\ log[Len(log)] = Snapshot(jobs[h])
                 /\ log[Len(log) - 1].payload.progress_value = None

\* ---------------------------------------------------------------------------
\* Listing with a status filter, statement by statement: lines 164-174
\* ---------------------------------------------------------------------------

\* The status values a caller passes: the four container names and one that names
\* no container.
Statuses == {"pending", "running", "failed", "completed", "bogus"}

\* lines 164-169 and the creation of the iterator of line 172 or 174.  A status that
\* names no container raises KeyError at line 167, which line 168 turns into [].
\* Otherwise `queues` is the container itself, not a copy, and the comprehension
\* iterates it; the iterator remembers the state of the deque it was made for.
ListCall(job_id, status) ==
    /\ lister.pc = "idle"
    /\ LET named == StatusQueue(status)
       IN  IF ~named.found
           THEN /\ ret' = [op |-> "list_status", arg |-> [job_id |-> job_id, status |-> status],
                           val |-> <<>>, ok |-> TRUE, tick |-> ret.tick]
                /\ UNCHANGED lister
           ELSE /\ lister' = [pc |-> "iter", job_id |-> job_id, status |-> status,
                              q |-> named.q, index |-> 0, found |-> <<>>]
                /\ UNCHANGED ret
    /\ UNCHANGED <<jobs, queues, current_job_id, clock, events, pc, job, deleter, waiter,
                   feeder, history>>

\* One next() of the comprehension of line 172 or 174.  A deque that was appended to
\* or removed from since the iterator was made raises RuntimeError ("deque mutated
\* during iteration"), which nothing in the method catches.  At the end of the deque
\* line 172 returns the selected jobs and line 174 returns them sorted.
ListNext ==
    /\ lister.pc = "iter"
    /\ LET current == StatusQueue(lister.status).q
           arg     == [job_id |-> lister.job_id, status |-> lister.status]
       IN  IF current # lister.q
           THEN /\ ret' = [op |-> "list_status", arg |-> arg, val |-> <<>>, ok |-> FALSE,
                           tick |-> ret.tick]
                /\ lister' = IdleLister
           ELSE IF lister.index = Len(lister.q)
           THEN /\ ret' = [op |-> "list_status", arg |-> arg,
                           val |-> IF lister.job_id \notin {None, 0} THEN lister.found
                                   ELSE SortedByLastRunTime(lister.found),
                           ok |-> TRUE, tick |-> ret.tick]
                /\ lister' = IdleLister
           ELSE LET h == lister.q[lister.index + 1]
                IN  /\ lister' = [lister EXCEPT
                           !.index = @ + 1,
                           !.found = IF lister.job_id \in {None, 0}
                                        \/ jobs[h].job_id = lister.job_id
                                     THEN Append(@, h) ELSE @]
                    /\ UNCHANGED ret
    /\ UNCHANGED <<jobs, queues, current_job_id, clock, events, pc, job, deleter, waiter,
                   feeder, history>>

ListThread ==
    \/ \E job_id \in {0, 1, current_job_id + 1}, status \in Statuses :
           ListCall(job_id, status)
    \/ ListNext

FeedList == \E func \in Funcs : feed_jobs_pending_queue(func, MaxJobsList, MaxJobsList)

NextList == FeedList \/ ListThread \/ consume_jobs_pending_queue

SpecList == Init /\ [][NextList]_vars

\* The step on which a filtered listing returns or raises: the iteration ends, or
\* the answer to a status that names no container is handed back.
ListReturned ==
    /\ ret'.op = "list_status"
    /\ \/ lister.pc = "iter" /\ lister'.pc = "idle"
       \/ ret' # ret

\* The jobs held by the container that status names; none for any other status.
HeldBy(status) ==
    IF status = "pending" THEN Range(jobs_pending_queue)
    ELSE IF status = "running" THEN Range(jobs_running_queue)
    ELSE IF status = "failed" THEN Range(jobs_failed_queue)
    ELSE IF status = "completed" THEN Range(jobs_completed_queue)
    ELSE {}

ListRaised == ret.op = "list_status" /\ ~ret.ok

\* ---------------------------------------------------------------------------
\* The cancel endpoint: SystemJobs.delete, api/system/jobs.py lines 45-53
\* ---------------------------------------------------------------------------

\* api/system/jobs.py line 50: the keyword the handler passes the id under
CancelKeyword == "task_id"

\* line 328: the parameters remove_job_from_pending_queue accepts besides self
RemoveParameters == {"job_id"}

\* DELETE system/jobs with id = job_id.  A falsy id skips the call and answers 400
\* (line 53).  The call of line 50 passes a keyword: when the method has no such
\* parameter Python raises TypeError before the method body runs, the handler does
\* not catch it, and the framework answers 500.  Otherwise the method runs, and the
\* handler answers 204 when it returned True and 400 when it returned False.
SystemJobsDelete(job_id) ==
    LET i == FindPending(job_id)
        answer(code) == [op |-> "DELETE", arg |-> job_id, val |-> code, ok |-> code # 500,
                         tick |-> 1 - ret.tick]
    IN  /\ IF job_id = 0
           THEN /\ ret' = answer(400)
                /\ UNCHANGED <<jobs_pending_queue, events, deleted>>
           ELSE IF CancelKeyword \notin RemoveParameters
           THEN /\ ret' = answer(500)
                /\ UNCHANGED <<jobs_pending_queue, events, deleted>>
           ELSE IF i = 0
           THEN /\ ret' = answer(400)
                /\ UNCHANGED <<jobs_pending_queue, events, deleted>>
           ELSE /\ jobs_pending_queue' = DequeRemove(jobs_pending_queue, jobs_pending_queue[i])
                /\ events' = event_stream(events, "delete",
                                 [job_id |-> jobs[jobs_pending_queue[i]].job_id])
                /\ deleted' = deleted \cup {jobs_pending_queue[i]}
                /\ ret' = answer(204)
        /\ UNCHANGED <<jobs, jobs_running_queue, jobs_failed_queue, jobs_completed_queue,
                       current_job_id, clock, pc, job, deleter, waiter, feeder, lister,
                       started, doneOk, doneFail, calls>>

RestDelete == \E job_id \in 0 .. (current_job_id + 1) : SystemJobsDelete(job_id)

FeedCancel == \E func \in Funcs : feed_jobs_pending_queue(func, MaxJobsCancel, MaxJobsCancel)

NextCancel == FeedCancel \/ RestDelete \/ consume_jobs_pending_queue

SpecCancel == Init /\ [][NextCancel]_vars

\* The step on which the endpoint answers.
CancelAnswered == ret'.op = "DELETE" /\ ret'.tick # ret.tick

\* C34: a DELETE with the id of a job that is in pending removes that job from
\* pending and answers 204; a DELETE with any other id answers 400 and changes no
\* container.
C34_CancelEndpoint ==
    [][CancelAnswered =>
          LET held == {h \in Range(jobs_pending_queue) : jobs[h].job_id = ret'.arg}
          IN  IF held # {}
              THEN /\ ret'.val = 204
                   /\ Range(jobs_pending_queue') = Range(jobs_pending_queue) \ held
              ELSE /\ ret'.val = 400
                   /\ queues' = queues]_vars

\* ---------------------------------------------------------------------------
\* Status and container
\* ---------------------------------------------------------------------------

\* C35: in every state another thread can observe, every job in pending has status
\* pending, the job in running has status running, every job in failed has status
\* failed and every job in completed has status completed.
C35_StatusAgrees ==
    /\ \A h \in Range(jobs_pending_queue) : jobs[h].status = "pending"
    /\ \A h \in Range(jobs_running_queue) : jobs[h].status = "running"
    /\ \A h \in Range(jobs_failed_queue) : jobs[h].status = "failed"
    /\ \A h \in Range(jobs_completed_queue) : jobs[h].status = "completed"

\* ---------------------------------------------------------------------------
\* The capacity of the running container
\* ---------------------------------------------------------------------------

\* C36: whenever the consumer pushes a job into running (line 384), running is
\* empty, so the push evicts nothing and leaves exactly that job there; and the
\* removal of line 408 always finds the job it removes.
C36_RunningNeverDrops ==
    [][/\ (pc = "push" /\ pc' # "push") =>
              /\ jobs_running_queue = <<>>
              /\ jobs_running_queue' = <<job>>
       /\ (pc = "finally" /\ pc' # "finally") =>
              /\ IndexOf(jobs_running_queue, job) # 0
              /\ ~InQueue(jobs_running_queue', job)
              /\ pc' = "finally_notify"]_vars

\* The second job the consumer took was pushed into running and removed from it.
C36_Witness ==
    /\ Len(started) = 2
    /\ pc = "finally_notify"
    /\ jobs_running_queue = <<>>

\* ---------------------------------------------------------------------------
\* Functions that defer themselves
\* ---------------------------------------------------------------------------

\* An outside call of a task function written as
\*     if not job_id: return jobs_queue.add_job_from_function(...)
\* (subtitles/mass_download/series.py lines 159-161), entered with job_id=None: lines
\* 312-320 feed a job for that function with the bound arguments as kwargs.
FeedDefer ==
    /\ \E func \in Funcs :
          FeedJob(JobName, TestMod, func, [k \in {"job_id"} |-> None], TRUE, 1, MaxJobsDefer,
                  MaxJobsDefer)
    /\ UNCHANGED <<waiter, feeder, lister>>

\* Line 397 for such a function: it tests the job_id it was called with.  Without a
\* truthy one it calls add_job_from_function again, now in the consumer thread, which
\* feeds another job and waits for it; with one it executes its body.
DeferCall ==
    /\ pc = "call"
    /\ IF jobs[job].kwargs["job_id"] \in {None, 0}
       THEN WaitFeed(jobs[job].func, MaxJobsDefer + 1)
       ELSE ConsumeCall

NextDefer ==
    \/ FeedDefer
    \/ ConsumeCheck
    \/ ConsumeSleep
    \/ ConsumePop
    \/ ConsumeMark
    \/ ConsumePush
    \/ ConsumeNotify
    \/ DeferCall
    \/ ConsumeExceptMark
    \/ ConsumeExceptFile
    \/ ConsumeElseMark
    \/ ConsumeElseFile
    \/ ConsumeFinallyRemove
    \/ ConsumeFinallyNotify

SpecDefer == Init /\ [][NextDefer]_vars

\* C37: a job is enqueued by an outside call only, one job per call, never by the
\* consumer; and when the consumer calls the function of a job, the job_id it passes
\* is the job's own id, which is neither 0 nor None, so the function executes its
\* body (it is counted as invoked and returns or raises) and does not wait for a
\* second job.
C37_DefersOnce ==
    [][/\ Len(jobs') # Len(jobs) =>
              /\ Len(jobs') = Len(jobs) + 1
              /\ pc' = pc
              /\ waiter' = waiter
       /\ (pc = "call" /\ (pc' # pc \/ waiter' # waiter)) =>
              /\ jobs[job].kwargs["job_id"] = jobs[job].job_id
              /\ jobs[job].job_id >= 1
              /\ calls'[job] = calls[job] + 1
              /\ pc' \in {"except", "else"}
              /\ waiter' = waiter]_vars

\* The second deferred job was called with its own id and returned.
C37_Witness ==
    /\ Len(jobs) = 2
    /\ pc = "else"
    /\ job = 2
    /\ jobs[2].kwargs["job_id"] = 2
    /\ calls[2] = 1

\* ---------------------------------------------------------------------------
\* Deleting the job a caller waits for
\* ---------------------------------------------------------------------------

\* The waiting caller is scheduled again and again: its loop sleeps 0.1 s between two
\* polls (lines 323-324).
SpecWaitFair == Init /\ [][NextWait]_vars /\ WF_vars(WaitPoll)

\* C38: a job that was deleted while pending is never invoked and
\* get_job_returned_value answers None for its id from then on; and when it is the
\* job a caller waits for in add_job_from_function, the wait ends and returns the id
\* of that job.
C38_DeleteReleasesWaiter ==
    /\ [](\A h \in deleted :
             /\ calls[h] = 0
             /\ get_job_returned_value(jobs[h].job_id) = None)
    /\ [](\A h \in deleted :
             (waiter.pc \in {"returned", "got"} /\ WaiterJob = h) =>
                 waiter.job_id = jobs[h].job_id)
    /\ (waiter.pc = "wait" /\ WaiterJob \in deleted) ~> (waiter.pc \in {"returned", "got"})

\* The caller's job was deleted while pending, the wait returned and the caller got
\* None for it, while the consumer ran another job.
C38_Witness ==
    /\ waiter.pc = "got"
    /\ WaiterJob \in deleted
    /\ waiter.value = None
    /\ started # <<>>

\* ---------------------------------------------------------------------------
\* The returned value
\* ---------------------------------------------------------------------------

\* A caller thread calls get_job_returned_value(job_id) and gets its answer.
QueryValue(job_id) ==
    /\ ret' = [op |-> "value", arg |-> job_id, val |-> get_job_returned_value(job_id),
               ok |-> TRUE, tick |-> 1 - ret.tick]
    /\ UNCHANGED <<jobs, queues, current_job_id, clock, events, pc, job, deleter, waiter,
                   feeder, lister, history>>

AskValue == \E job_id \in 0 .. (current_job_id + 1) : QueryValue(job_id)

FeedValue == \E func \in Funcs : feed_jobs_pending_queue(func, MaxJobsValue, MaxJobsValue)

NextValue == FeedValue \/ Delete \/ AskValue \/ consume_jobs_pending_queue

SpecValue == Init /\ [][NextValue]_vars

\* The step on which get_job_returned_value answers.
ValueReturned == ret'.op = "value" /\ ret'.tick # ret.tick

\* What the claim says get_job_returned_value(job_id) is: None for an id that no job
\* in the four containers has and for a job in pending or in failed, the value the
\* callable returned for a job in completed.
ValueAsClaimed(job_id, val) ==
    LET with_id == {h \in Held : jobs[h].job_id = job_id}
    IN  IF with_id = {} THEN val = None
        ELSE \A h \in with_id :
                 /\ InQueue(jobs_pending_queue, h) => val = None
                 /\ InQueue(jobs_failed_queue, h) => val = None
                 /\ InQueue(jobs_completed_queue, h) => val = ReturnedValue(jobs[h].func)

\* The value of a job does not change while the job is in the completed container.
ValueKept ==
    \A h \in Range(jobs_completed_queue) \cap Range(jobs_completed_queue') :
        jobs'[h].job_returned_value = jobs[h].job_returned_value

\* C39: get_job_returned_value(id) is None for every job that is pending, that
\* failed, or that is unknown to the queue; for a job in the completed container it
\* is the value its callable returned, and that value never changes afterwards.
C39_OnlyCompletedCarryResult ==
    [][/\ ValueKept
       /\ ValueReturned => ValueAsClaimed(ret'.arg, ret'.val)]_vars

\* The same for the ids jobs are given (1 and above).
ValueForGivenIds ==
    [][/\ ValueKept
       /\ (ValueReturned /\ ret'.arg >= 1) => ValueAsClaimed(ret'.arg, ret'.val)]_vars

====
